---- MODULE Spec2Model ----
(***************************************************************************)
(* A model of the flexgemm convolution planner (src/unnamed/part_000):     *)
(* the bit-width probe bim_fls, the bounded fast-division synthesizer      *)
(* idiv_magic, the three routine selectors, the alignment resolver         *)
(* get_alignment, the auxiliary-size query get_auxbuf_size (both            *)
(* overloads) and the plan builders build_params_ufconv and                *)
(* build_params_conv.                                                      *)
(*                                                                         *)
(* Number representation.  The source computes on uint32_t (and uint64_t   *)
(* inside idiv_magic).  TLC's integers are checked 32-bit signed values:   *)
(* an operation whose result leaves -2^31 .. 2^31-1 stops TLC with an      *)
(* error instead of wrapping.  Every input set below keeps every           *)
(* intermediate value of the planner under 2^31, which is under the        *)
(* uint32_t wrap point 2^32, so on these inputs the source's arithmetic    *)
(* and the model's agree digit for digit.  The two places where the source *)
(* produces the bit pattern 0xFFFFFFFF on in-range inputs (the wrapped nc  *)
(* of idiv_magic and its sentinel -1) carry that pattern as the signed     *)
(* value -1, its two's-complement reading.                                 *)
(***************************************************************************)
EXTENDS Integers, Sequences, FiniteSets, TLC

VARIABLES
    ctx,     \* the ConvolutionContext handed to the planner
    p,       \* the caller's param_conv_t record
    up,      \* the caller's param_ufconv_t record
    aux,     \* what get_auxbuf_size returned: [ctx |-> .., plan |-> ..]
    done,    \* the planner entry points that have returned
    fn,      \* the static helper called last ("none" before any call)
    args,    \* its arguments
    ret,     \* its return value(s)
    loc      \* the locals of a call of idiv_magic that is run step by step

vars == <<ctx, p, up, aux, done, fn, args, ret, loc>>

(***************************************************************************)
(* Bounds of the model.                                                    *)
(***************************************************************************)
MaxNmax == 40     \* idiv_magic: dividend bounds 0 .. MaxNmax
MaxD == 44        \* idiv_magic: divisors 1 .. MaxD
MaxFls == 300     \* bim_fls: arguments 0 .. MaxFls
MaxN == 130       \* selectors: output-channel counts 1 .. MaxN
MaxK == 16        \* selectors: reduction depths 1 .. MaxK
MaxM == 4         \* unit-filter selector: row counts 1 .. MaxM
MaxId == 5        \* get_alignment: routine ids 0 .. MaxId
MaxDir == 2       \* get_alignment: direction words 0 .. MaxDir

(***************************************************************************)
(* C++ operators on unsigned words.                                        *)
(***************************************************************************)
RECURSIVE BitAnd(_, _)
\* a & b
BitAnd(a, b) ==
    IF a = 0 \/ b = 0 THEN 0
    ELSE (a % 2) * (b % 2) + 2 * BitAnd(a \div 2, b \div 2)

RECURSIVE BitOr(_, _)
\* a | b
BitOr(a, b) ==
    IF a = 0 THEN b
    ELSE IF b = 0 THEN a
    ELSE (IF a % 2 = 1 \/ b % 2 = 1 THEN 1 ELSE 0) + 2 * BitOr(a \div 2, b \div 2)

RECURSIVE BitXor(_, _)
\* a ^ b
BitXor(a, b) ==
    IF a = 0 THEN b
    ELSE IF b = 0 THEN a
    ELSE ((a + b) % 2) + 2 * BitXor(a \div 2, b \div 2)

RECURSIVE AndNot(_, _)
\* a & ~b: the bits of a that are clear in b (~b itself has bit 31 set)
AndNot(a, b) ==
    IF a = 0 THEN 0
    ELSE (a % 2) * (1 - (b % 2)) + 2 * AndNot(a \div 2, b \div 2)

\* a << k (no bit of a reaches bit 31 on the model's inputs)
Shl(a, k) == a * 2^k

\* a >> k
Shr(a, k) == a \div 2^k

RECURSIVE popcount(_)
\* __builtin_popcount
popcount(n) == IF n = 0 THEN 0 ELSE (n % 2) + popcount(n \div 2)

(***************************************************************************)
(* bim_fls                                                                 *)
(***************************************************************************)
\* Fault variant of bim_fls: the last flooding step, n|(n>>0x10), is left out.
bim_fls_no16(n) ==
    LET n1 == BitOr(n, Shr(n, 1))
        n2 == BitOr(n1, Shr(n1, 2))
        n3 == BitOr(n2, Shr(n2, 4))
        n4 == BitOr(n3, Shr(n3, 8))
    IN  popcount(n4)

bim_fls(n) ==
    LET n1 == BitOr(n, Shr(n, 1))
        n2 == BitOr(n1, Shr(n1, 2))
        n3 == BitOr(n2, Shr(n2, 4))
        n4 == BitOr(n3, Shr(n3, 8))
        n5 == BitOr(n4, Shr(n4, 16))
    IN  popcount(n5)

(***************************************************************************)
(* idiv_magic.  A magic_t is a record [m, s].                              *)
(***************************************************************************)
\* magic.m=-1; magic.s=-1;
Sentinel == [m |-> -1, s |-> -1]

\* uint64_t nc=((nmax+1)/d)*d-1: the subtraction is done in uint32_t, so a
\* zero product wraps to 0xFFFFFFFF, carried here as -1.
idiv_nc(nmax, d) ==
    LET t == ((nmax + 1) \div d) * d
    IN  IF t = 0 THEN -1 ELSE t - 1

\* exp>(nc*mod) in uint64_t.  With nc = 0xFFFFFFFF the product is 0 for
\* mod = 0 and at least 2^32-1 otherwise, above every exp = 2^s the model
\* reaches (s <= 2*bim_fls(nmax) < 31).
exp_gt(exp, nc, mod) ==
    IF nc < 0 THEN mod = 0 ELSE exp > nc * mod

RECURSIVE idiv_loop_floor(_, _, _, _)
\* Fault variant of idiv_loop: the multiplier is rounded down, exp/d.
idiv_loop_floor(s, r, nc, d) ==
    IF s >= r THEN Sentinel
    ELSE LET exp == 2^s
             mod == d - 1 - ((exp - 1) % d)
         IN  IF exp_gt(exp, nc, mod)
             THEN [m |-> exp \div d, s |-> s]
             ELSE idiv_loop_floor(s + 1, r, nc, d)

RECURSIVE idiv_loop(_, _, _, _)
\* for( uint32_t s=0; s<r; s++ ){ ... break; } from the iteration at s on
idiv_loop(s, r, nc, d) ==
    IF s >= r THEN Sentinel
    ELSE LET exp == 2^s
             mod == d - 1 - ((exp - 1) % d)
         IN  IF exp_gt(exp, nc, mod)
             THEN [m |-> (exp + mod) \div d, s |-> s]
             ELSE idiv_loop(s + 1, r, nc, d)

\* Fault variant of idiv_magic: the search range is r = 2*nbits, one short.
idiv_magic_short(nmax, d) ==
    IF d = 1 THEN [m |-> 1, s |-> 0]
    ELSE LET nc == idiv_nc(nmax, d)
             nbits == bim_fls(nmax)
             r == Shl(nbits, 1)
         IN  idiv_loop(0, r, nc, d)

\* Fault variant of idiv_r: the range is 4*nbits + 1.
idiv_r_wide(nbits) == Shl(nbits, 2) + 1

\* Fault variant of idiv_r: the range is nbits + 1.
idiv_r_narrow(nbits) == nbits + 1

\* uint32_t r=(nbits<<1)+1;
idiv_r(nbits) == Shl(nbits, 1) + 1

idiv_magic(nmax, d) ==
    IF d = 1 THEN [m |-> 1, s |-> 0]
    ELSE LET nc == idiv_nc(nmax, d)
             nbits == bim_fls(nmax)
             r == idiv_r(nbits)
         IN  idiv_loop(0, r, nc, d)

(***************************************************************************)
(* The routine selectors and the alignment resolver.                       *)
(***************************************************************************)
\* Fault variant of ufconv_mode: only the parity of m is classified.
ufconv_mode_parity(m) == BitXor(BitAnd(m, 1), 1)

\* uint32_t mode=((m&1)^1)+((m&3)==0?1:0);
ufconv_mode(m) ==
    BitXor(BitAnd(m, 1), 1) + (IF BitAnd(m, 3) = 0 THEN 1 ELSE 0)

\* Fault variant of ufconv_id: the backward override is left out.
ufconv_id_nodir(n, k, dir) ==
    LET s == Shr(n + 31, 5)
        t == Shr(n + 15, 4)
        id0 == 1 + (IF BitAnd(s, 3) = 0
                    THEN (IF BitAnd(k, 15) = 0 THEN 2 ELSE 1)
                    ELSE BitXor(BitAnd(s, 1), 1))
    IN  IF BitAnd(t, 1) # 0 /\ n <= 112 THEN 0 ELSE id0

\* The id of choose_routine_ufconv: s, t, id and the two overrides of id.
ufconv_id(n, k, dir) ==
    LET s == Shr(n + 31, 5)
        t == Shr(n + 15, 4)
        id0 == 1 + (IF BitAnd(s, 3) = 0
                    THEN (IF BitAnd(k, 15) = 0 THEN 2 ELSE 1)
                    ELSE BitXor(BitAnd(s, 1), 1))
        id1 == IF BitAnd(t, 1) # 0 /\ n <= 112 THEN 0 ELSE id0
    IN  IF dir # 0 /\ id1 # 0
        THEN (IF BitAnd(n, 3) # 0
              THEN (IF BitAnd(n, 1) # 0 THEN 1 ELSE 2)
              ELSE id1)
        ELSE id1

\* Fault variant of choose_routine_ufconv: the mode is packed from bit 8.
choose_routine_ufconv_lowmode(m, n, k, dir) ==
    BitOr(Shl(ufconv_mode(m), 8), ufconv_id(n, k, dir))

\* return ((mode<<16)|id);
choose_routine_ufconv(m, n, k, dir) ==
    BitOr(Shl(ufconv_mode(m), 16), ufconv_id(n, k, dir))

\* Fault variant of choose_routine_fconv: the parity bit of r is not
\* inverted.
choose_routine_fconv_parity(n, k) ==
    LET r == Shr(n + 31, 5)
        s == Shr(n + 15, 4)
        id == 2 + (IF BitAnd(r, 3) = 0
                   THEN (IF BitAnd(k, 15) = 0 THEN 2 ELSE 1)
                   ELSE BitAnd(r, 1))
    IN  IF BitAnd(s, 1) # 0 /\ n <= 112
        THEN 1
        ELSE (IF BitAnd(k, 7) # 0 THEN 0 ELSE id)

\* Fault variant of choose_routine_fconv: the k&7 test is made before the
\* narrow-n test.
choose_routine_fconv_kfirst(n, k) ==
    LET r == Shr(n + 31, 5)
        s == Shr(n + 15, 4)
        id == 2 + (IF BitAnd(r, 3) = 0
                   THEN (IF BitAnd(k, 15) = 0 THEN 2 ELSE 1)
                   ELSE BitXor(BitAnd(r, 1), 1))
    IN  IF BitAnd(k, 7) # 0
        THEN 0
        ELSE (IF BitAnd(s, 1) # 0 /\ n <= 112 THEN 1 ELSE id)

choose_routine_fconv(n, k) ==
    LET r == Shr(n + 31, 5)
        s == Shr(n + 15, 4)
        id == 2 + (IF BitAnd(r, 3) = 0
                   THEN (IF BitAnd(k, 15) = 0 THEN 2 ELSE 1)
                   ELSE BitXor(BitAnd(r, 1), 1))
    IN  IF BitAnd(s, 1) # 0 /\ n <= 112
        THEN 1
        ELSE (IF BitAnd(k, 7) # 0 THEN 0 ELSE id)

\* Fault variant of choose_routine_bconv: the parity bit is not inverted.
choose_routine_bconv_parity(n) ==
    LET s == Shr(n + 15, 4)
    IN  IF BitAnd(s, 7) = 0 THEN 3
        ELSE (IF BitAnd(s, 3) = 0 THEN 2 ELSE BitAnd(s, 1))

choose_routine_bconv(n) ==
    LET s == Shr(n + 15, 4)
    IN  IF BitAnd(s, 7) = 0 THEN 3
        ELSE (IF BitAnd(s, 3) = 0 THEN 2 ELSE BitXor(BitAnd(s, 1), 1))

\* Fault variant of get_alignment: the direction is ignored.
get_alignment_fwdonly(id, dir) == IF id = 1 \/ id = 4 THEN 127 ELSE 255

get_alignment(id, dir) ==
    IF dir = 0
    THEN (IF id = 1 \/ id = 4 THEN 127 ELSE 255)
    ELSE (IF id = 0 \/ id = 3 THEN 127 ELSE 255)

(***************************************************************************)
(* get_auxbuf_size(const ConvolutionContext&).  A ConvolutionContext is a  *)
(* record of the fields the planner reads; forward is                      *)
(* ctx.direction.IsForward().                                              *)
(***************************************************************************)
get_auxbuf_size_ctx(c) ==
    LET bs == c.batch_sz
        ng == c.group_counts
        inc == c.n_inputs
        anx == c.in_width
        any == c.in_height
        bnx == c.kernel_size_w
        bny == c.kernel_size_h
        cnx == c.out_width
        cny == c.out_height
        pu == IF ~c.forward THEN bnx - c.pad_w - 1 ELSE c.pad_w
        pv == IF ~c.forward THEN bny - c.pad_h - 1 ELSE c.pad_h
        pnx == anx + Shl(pu, 1)
        pny == any + Shl(pv, 1)
        k == bnx * bny * inc
        n == c.n_outputs
        ldc == cnx * cny
        m == ldc * bs
        fid == choose_routine_fconv(n, k)
        bid == choose_routine_bconv(n)
        id == IF c.forward THEN fid ELSE bid
        temp1 == get_alignment(id, IF c.forward THEN 0 ELSE 1)
        ntidx == AndNot(m + temp1, temp1)
        lda0 == pnx * pny
        lda1 == lda0 * bs
        temp2 == Shr(lda1 + 63, 6)
        lda == IF BitOr(pu, pv) # 0
               THEN (IF lda1 > 1024
                     THEN Shl(temp2 + BitXor(1, BitAnd(temp2, 1)), 6)
                     ELSE lda1)
               ELSE lda0
        temp3 == IF id # (IF c.forward THEN 4 ELSE 3) THEN 7 ELSE 15
        pk == AndNot(k + temp3, temp3)
        ags == lda * inc
        spad0 == Shl(ng, 2) * ags
        sperm0 == Shl(ng, 2) * pk * AndNot(n + 3, 3)
        sidx == Shl(ntidx, 3) + Shl(pk, 2) + 128
        spad == IF BitOr(pu, pv) = 0 THEN 0 ELSE spad0
        sperm == IF c.forward THEN 0 ELSE sperm0
    IN  spad + sperm + sidx

(***************************************************************************)
(* get_auxbuf_size(const param_conv_t&)                                    *)
(***************************************************************************)
\* Fault variant of get_auxbuf_size(p): the permutation buffer is left out.
get_auxbuf_size_plan_noperm(q) == q.spad + q.sidx

get_auxbuf_size_plan(q) == q.spad + q.sperm + q.sidx

(***************************************************************************)
(* build_params_ufconv: the record the call leaves in p.                   *)
(***************************************************************************)
selx == 9586980      \* 0x924924u
sely == 5242880      \* 0x500000u

\* Fault variant of uf_index: the tables are indexed mode-major.
uf_index_modefirst(pid) == Shr(pid, 16) * 4 + BitAnd(pid, 65535)

\* uint32_t id=(p.id&0xffff)*3+(p.id>>16);
uf_index(pid) == BitAnd(pid, 65535) * 3 + Shr(pid, 16)

\* uint32_t sx=(selx>>(id<<1))&0x3;
uf_sx(pid) == BitAnd(Shr(selx, Shl(uf_index(pid), 1)), 3)

\* uint32_t sy=(sely>>(id<<1))&0x3;
uf_sy(pid) == BitAnd(Shr(sely, Shl(uf_index(pid), 1)), 3)

\* Fault variant of uf_magic: the divisor is passed unshifted.
uf_magic_unshifted(ntidx, m, sh) == idiv_magic(Shr(ntidx, sh), m)

\* idiv_magic(p.ntidx>>sx,p.m>>sx) and idiv_magic(p.ntidx>>sy,p.m>>sy)
uf_magic(ntidx, m, sh) == idiv_magic(Shr(ntidx, sh), Shr(m, sh))

\* Fault variant of uf_alignment: id 3 is rounded to 256 as well.
uf_alignment_wide(pid) ==
    IF BitAnd(pid, 65535) > 0 /\ BitAnd(pid, 65535) <= 3 THEN 255 ELSE 127

\* uint32_t alignment=(p.id&0xffff)>0&&(p.id&0xffff)<3?255:127;
uf_alignment(pid) ==
    IF BitAnd(pid, 65535) > 0 /\ BitAnd(pid, 65535) < 3 THEN 255 ELSE 127

\* Fault variant of uf_cmag: the second divisor is computed unconditionally.
uf_cmag_always(prior, ntidx, m, sx, sy) == uf_magic(ntidx, m, sy)

\* Fault variant of uf_cmag: the second divisor is never computed.
uf_cmag_never(prior, ntidx, m, sx, sy) == prior

\* if(sx!=sy){ p.cmag=idiv_magic(p.ntidx>>sy,p.m>>sy); }  Nothing else
\* assigns p.cmag, so with sx == sy the field keeps what the record held.
uf_cmag(prior, ntidx, m, sx, sy) ==
    IF sx # sy THEN uf_magic(ntidx, m, sy) ELSE prior

build_params_ufconv(q, c) ==
    LET m == c.in_width * c.in_height
        n == c.n_outputs
        k == c.n_inputs
        dir == IF c.forward THEN 0 ELSE 1
        pid == choose_routine_ufconv(m, n, k, dir)
        sx == uf_sx(pid)
        sy == uf_sy(pid)
        alignment == uf_alignment(pid)
        dimx == m * c.batch_sz
        ntidx == AndNot(dimx + alignment, alignment)
    IN  [q EXCEPT !.m = m, !.n = n, !.k = k, !.dir = dir, !.id = pid,
                  !.ng = c.group_counts, !.dimx = dimx, !.ntidx = ntidx,
                  !.amag = uf_magic(ntidx, m, sx),
                  !.cmag = uf_cmag(q.cmag, ntidx, m, sx, sy)]

(***************************************************************************)
(* build_params_conv: the record the call leaves in p, and the steps it is *)
(* made of.                                                                *)
(***************************************************************************)
\* Fault variant of conv_effpad: the pad is not mirrored for backward.
conv_effpad_unmirrored(dir, ext, pad) == pad

\* if(p.dir!=0){ pu=p.bnx-pu-1; pv=p.bny-pv-1; }, one axis
conv_effpad(dir, ext, pad) == IF dir # 0 THEN ext - pad - 1 ELSE pad

\* p.pad=(pv<<24)|(pv<<16)|(pu<<8)|pu;
conv_pad_word(pu, pv) ==
    BitOr(BitOr(BitOr(Shl(pv, 24), Shl(pv, 16)), Shl(pu, 8)), pu)

\* Fault variant of conv_sd_word: the height dilation is shifted by 16.
conv_sd_word_lane16(su, sv, du, dv) ==
    BitOr(BitOr(BitOr(Shl(dv, 16), Shl(du, 12)), Shl(sv, 6)), su)

\* p.sd=(dv<<18)|(du<<12)|(sv<<6)|su;
conv_sd_word(su, sv, du, dv) ==
    BitOr(BitOr(BitOr(Shl(dv, 18), Shl(du, 12)), Shl(sv, 6)), su)

\* if(p.dir==0){ p.id=choose_routine_fconv(p.n,p.k); } else { ... }
conv_id(dir, n, k) ==
    IF dir = 0 THEN choose_routine_fconv(n, k) ELSE choose_routine_bconv(n)

\* Fault variant of conv_ntidx: the mask plus one is added before masking.
conv_ntidx_next(m, id, dir) ==
    LET temp == get_alignment(id, dir)
    IN  AndNot(m + temp + 1, temp)

\* uint32_t temp=get_alignment(p.id,p.dir); p.ntidx=(p.m+temp)&~temp;
conv_ntidx(m, id, dir) ==
    LET temp == get_alignment(id, dir)
    IN  AndNot(m + temp, temp)

\* Fault variant of conv_lda: the pitch is multiplied by the batch size with
\* or without padding.
conv_lda_always_bs(pnx, pny, pad, bs) ==
    LET lda1 == pnx * pny * bs
        temp == Shr(lda1 + 63, 6)
    IN  IF pad # 0 /\ lda1 > 1024
        THEN Shl(temp + BitXor(1, BitAnd(temp, 1)), 6)
        ELSE lda1

\* Fault variant of conv_lda: the quotient is not nudged.
conv_lda_nonudge(pnx, pny, pad, bs) ==
    LET lda0 == pnx * pny
        lda1 == lda0 * bs
        temp == Shr(lda1 + 63, 6)
    IN  IF pad # 0
        THEN (IF lda1 > 1024 THEN Shl(temp, 6) ELSE lda1)
        ELSE lda0

\* Fault variant of conv_lda: the rounded pitch is not shifted back by 6.
conv_lda_noshift(pnx, pny, pad, bs) ==
    LET lda0 == pnx * pny
        lda1 == lda0 * bs
        temp == Shr(lda1 + 63, 6)
    IN  IF pad # 0
        THEN (IF lda1 > 1024
              THEN temp + BitXor(1, BitAnd(temp, 1))
              ELSE lda1)
        ELSE lda0

\* p.lda=p.pnx*p.pny; if(p.pad!=0){ p.lda*=p.bs; if(p.lda>1024){ ... } }
conv_lda(pnx, pny, pad, bs) ==
    LET lda0 == pnx * pny
        lda1 == lda0 * bs
        temp == Shr(lda1 + 63, 6)
    IN  IF pad # 0
        THEN (IF lda1 > 1024
              THEN Shl(temp + BitXor(1, BitAnd(temp, 1)), 6)
              ELSE lda1)
        ELSE lda0

\* Fault variant of conv_pk: the two granularities are exchanged.
conv_pk_swapped(k, id, dir) ==
    LET temp == IF id # (IF dir = 0 THEN 4 ELSE 3) THEN 15 ELSE 7
    IN  AndNot(k + temp, temp)

\* Fault variant of conv_pk: k is always rounded to a multiple of 8.
conv_pk_mask7(k, id, dir) == AndNot(k + 7, 7)

\* temp=p.id!=(p.dir==0?4:3)?7:15; uint32_t pk=(p.k+temp)&~temp;
conv_pk(k, id, dir) ==
    LET temp == IF id # (IF dir = 0 THEN 4 ELSE 3) THEN 7 ELSE 15
    IN  AndNot(k + temp, temp)

\* Fault variant of conv_spad: the size is not forced to 0 without padding.
conv_spad_unforced(ng, ags, pad) == Shl(ng, 2) * ags

\* Fault variant of conv_spad: the group count is offset by 2, not shifted.
conv_spad_plus(ng, ags, pad) == IF pad = 0 THEN 0 ELSE (ng + 2) * ags

\* p.spad=static_cast<size_t>(p.ng<<2)*p.ags; p.spad=p.pad==0?0:p.spad;
conv_spad(ng, ags, pad) == IF pad = 0 THEN 0 ELSE Shl(ng, 2) * ags

\* Fault variant of conv_sperm: the size is not forced to 0 for forward.
conv_sperm_unforced(ng, pk, n, dir) == Shl(ng, 2) * pk * AndNot(n + 3, 3)

\* p.sperm=static_cast<size_t>(p.ng<<2)*pk*((p.n+3)&~3);
\* p.sperm=p.dir==0?0:p.sperm;
conv_sperm(ng, pk, n, dir) ==
    IF dir = 0 THEN 0 ELSE Shl(ng, 2) * pk * AndNot(n + 3, 3)

\* Fault variant of conv_sidx: the pk term is subtracted.
conv_sidx_minus(ntidx, pk) == Shl(ntidx, 3) - Shl(pk, 2) + 128

\* p.sidx=(p.ntidx<<3)+(pk<<2)+128;
conv_sidx(ntidx, pk) == Shl(ntidx, 3) + Shl(pk, 2) + 128

build_params_conv(q, c) ==
    LET su == c.kernel_stride_w
        sv == c.kernel_stride_h
        du == c.kernel_dilation_w
        dv == c.kernel_dilation_h
        dir == IF c.forward THEN 0 ELSE 1
        ng == c.group_counts
        bs == c.batch_sz
        inc == c.n_inputs
        anx == c.in_width
        any == c.in_height
        bnx == c.kernel_size_w
        bny == c.kernel_size_h
        cnx == c.out_width
        cny == c.out_height
        pu == conv_effpad(dir, bnx, c.pad_w)
        pv == conv_effpad(dir, bny, c.pad_h)
        pnx == anx + Shl(pu, 1)
        pny == any + Shl(pv, 1)
        k == bnx * bny * inc
        n == c.n_outputs
        pad == conv_pad_word(pu, pv)
        sd == conv_sd_word(su, sv, du, dv)
        ldc == cnx * cny
        m == ldc * bs
        id == conv_id(dir, n, k)
        ntidx == conv_ntidx(m, id, dir)
        lda == conv_lda(pnx, pny, pad, bs)
        pk == conv_pk(k, id, dir)
        ags == lda * inc
    IN  [q EXCEPT !.dir = dir, !.ng = ng, !.bs = bs, !.inc = inc,
                  !.anx = anx, !.any = any, !.bnx = bnx, !.bny = bny,
                  !.cnx = cnx, !.cny = cny, !.pnx = pnx, !.pny = pny,
                  !.k = k, !.n = n, !.pad = pad, !.sd = sd, !.ldc = ldc,
                  !.m = m, !.id = id, !.ntidx = ntidx, !.lda = lda,
                  !.ags = ags,
                  !.spad = conv_spad(ng, ags, pad),
                  !.sperm = conv_sperm(ng, pk, n, dir),
                  !.sidx = conv_sidx(ntidx, pk)]

(***************************************************************************)
(* The caller's side: the descriptors it hands in and the records it       *)
(* passes by reference.                                                    *)
(***************************************************************************)
MaxPad == 1       \* pads 0 .. MaxPad on each axis
MaxGroups == 2    \* group counts 1 .. MaxGroups
MaxBatch == 2     \* batch sizes 1 .. MaxBatch

KernelSizes == {1, 3}
InChannels == {1, 8, 16}
OutChannels == {1, 16, 32, 64, 112, 128, 130}

\* <<in_width, in_height, out_width, out_height, stride_w, stride_h,
\*   dilation_w, dilation_h>>
Geometries ==
    { <<1, 1, 1, 1, 1, 1, 1, 1>>,
      <<5, 4, 13, 10, 2, 3, 1, 2>>,
      <<33, 31, 16, 16, 1, 1, 1, 1>>,
      <<20, 25, 13, 10, 1, 2, 3, 1>> }

MakeCtx(fwd, pw, ph, ng, bs, inc, n, kw, kh, g) ==
    [forward |-> fwd, pad_w |-> pw, pad_h |-> ph, group_counts |-> ng,
     batch_sz |-> bs, n_inputs |-> inc, n_outputs |-> n,
     kernel_size_w |-> kw, kernel_size_h |-> kh,
     in_width |-> g[1], in_height |-> g[2],
     out_width |-> g[3], out_height |-> g[4],
     kernel_stride_w |-> g[5], kernel_stride_h |-> g[6],
     kernel_dilation_w |-> g[7], kernel_dilation_h |-> g[8]]

\* A backward descriptor the caller accepts has pad <= kernel extent - 1 on
\* each axis (the mirrored pad kernel - pad - 1 is a pad, not a crop).
Descriptors ==
    { c \in { MakeCtx(fwd, pw, ph, ng, bs, inc, n, kw, kh, g) :
                fwd \in BOOLEAN, pw \in 0..MaxPad, ph \in 0..MaxPad,
                ng \in 1..MaxGroups, bs \in 1..MaxBatch, inc \in InChannels,
                n \in OutChannels, kw \in KernelSizes, kh \in KernelSizes,
                g \in Geometries } :
        c.forward \/ (c.pad_w < c.kernel_size_w /\ c.pad_h < c.kernel_size_h) }

\* Unit-filter descriptors: 1x1 kernel, no padding, unit stride and dilation,
\* output extents equal to the input extents.
MaxUfWidth == 4   \* unit-filter input widths 1 .. MaxUfWidth
UfHeights == {1, 2, 3, 8}

UfDescriptors ==
    { MakeCtx(fwd, 0, 0, ng, bs, inc, n, 1, 1, <<w, h, w, h, 1, 1, 1, 1>>) :
        fwd \in BOOLEAN, ng \in 1..MaxGroups, bs \in 1..MaxBatch,
        inc \in InChannels, n \in OutChannels,
        w \in 1..MaxUfWidth, h \in UfHeights }

\* What a record holds before the planner writes it: every field the same
\* filler word.
PriorFill == {0, 7}

PriorConv(f) ==
    [dir |-> f, ng |-> f, bs |-> f, inc |-> f, anx |-> f, any |-> f,
     bnx |-> f, bny |-> f, cnx |-> f, cny |-> f, pnx |-> f, pny |-> f,
     k |-> f, n |-> f, pad |-> f, sd |-> f, ldc |-> f, m |-> f, id |-> f,
     ntidx |-> f, lda |-> f, ags |-> f, spad |-> f, sperm |-> f, sidx |-> f]

PriorUfconv(f) ==
    [m |-> f, n |-> f, k |-> f, dir |-> f, id |-> f, ng |-> f, dimx |-> f,
     ntidx |-> f, amag |-> [m |-> f, s |-> f], cmag |-> [m |-> f, s |-> f]]

NoLocals == [nc |-> 0, r |-> 0, s |-> 0, iters |-> 0]

NoAux == [ctx |-> 0, plan |-> 0]

(***************************************************************************)
(* Spec: the generic planner on one descriptor.                            *)
(***************************************************************************)
Init ==
    /\ ctx \in Descriptors
    /\ p \in { PriorConv(f) : f \in PriorFill }
    /\ up = PriorUfconv(0)
    /\ aux = NoAux
    /\ done = {}
    /\ fn = "none"
    /\ args = <<>>
    /\ ret = <<>>
    /\ loc = NoLocals

BuildParamsConv ==
    /\ "build_params_conv" \notin done
    /\ p' = build_params_conv(p, ctx)
    /\ done' = done \cup {"build_params_conv"}
    /\ UNCHANGED <<ctx, up, aux, fn, args, ret, loc>>

GetAuxbufSizeCtx ==
    /\ "get_auxbuf_size(ctx)" \notin done
    /\ aux' = [aux EXCEPT !.ctx = get_auxbuf_size_ctx(ctx)]
    /\ done' = done \cup {"get_auxbuf_size(ctx)"}
    /\ UNCHANGED <<ctx, p, up, fn, args, ret, loc>>

\* The caller queries a plan only once it is built.
GetAuxbufSizePlan ==
    /\ "build_params_conv" \in done
    /\ "get_auxbuf_size(p)" \notin done
    /\ aux' = [aux EXCEPT !.plan = get_auxbuf_size_plan(p)]
    /\ done' = done \cup {"get_auxbuf_size(p)"}
    /\ UNCHANGED <<ctx, p, up, fn, args, ret, loc>>

Next == BuildParamsConv \/ GetAuxbufSizeCtx \/ GetAuxbufSizePlan

Spec == Init /\ [][Next]_vars

(***************************************************************************)
(* SpecUf: the unit-filter planner on one descriptor.                      *)
(***************************************************************************)
InitUf ==
    /\ ctx \in UfDescriptors
    /\ p = PriorConv(0)
    /\ up \in { PriorUfconv(f) : f \in PriorFill }
    /\ aux = NoAux
    /\ done = {}
    /\ fn = "none"
    /\ args = <<>>
    /\ ret = <<>>
    /\ loc = NoLocals

BuildParamsUfconv ==
    /\ "build_params_ufconv" \notin done
    /\ up' = build_params_ufconv(up, ctx)
    /\ done' = done \cup {"build_params_ufconv"}
    /\ UNCHANGED <<ctx, p, aux, fn, args, ret, loc>>

NextUf == BuildParamsUfconv

SpecUf == InitUf /\ [][NextUf]_vars

(***************************************************************************)
(* idiv_magic run step by step: one step enters the function (and returns  *)
(* at once for d == 1), one step is one execution of the loop body, and    *)
(* one step leaves the loop when s < r fails.  fn is "idiv_magic:for"      *)
(* while the call is at the loop and "idiv_magic" once it has returned;    *)
(* ret holds magic, loc the locals nc, r and s, and iters counts the       *)
(* executions of the loop body.                                            *)
(***************************************************************************)
InitLoop ==
    /\ ctx = MakeCtx(TRUE, 0, 0, 1, 1, 1, 1, 1, 1, <<1, 1, 1, 1, 1, 1, 1, 1>>)
    /\ p = PriorConv(0)
    /\ up = PriorUfconv(0)
    /\ aux = NoAux
    /\ done = {}
    /\ fn = "none"
    /\ args = <<>>
    /\ ret = <<>>
    /\ loc = NoLocals

\* magic={1,0}; if(d==1) return magic; nc, nbits, r; magic.m=-1;
\* magic.s=-1; s=0
IdivMagicEnter ==
    /\ fn = "none"
    /\ \E nmax \in 0..MaxNmax, d \in 1..MaxD :
          /\ args' = <<nmax, d>>
          /\ IF d = 1
             THEN /\ fn' = "idiv_magic"
                  /\ ret' = <<1, 0>>
                  /\ loc' = loc
             ELSE /\ fn' = "idiv_magic:for"
                  /\ ret' = <<-1, -1>>
                  /\ loc' = [nc |-> idiv_nc(nmax, d), r |-> idiv_r(bim_fls(nmax)),
                             s |-> 0, iters |-> 0]
    /\ UNCHANGED <<ctx, p, up, aux, done>>

\* One execution of the loop body: break with the pair, or s++.
IdivMagicIterate ==
    /\ fn = "idiv_magic:for"
    /\ loc.s < loc.r
    /\ LET d == args[2]
           exp == 2^(loc.s)
           mod == d - 1 - ((exp - 1) % d)
       IN  IF exp_gt(exp, loc.nc, mod)
           THEN /\ ret' = <<(exp + mod) \div d, loc.s>>
                /\ fn' = "idiv_magic"
                /\ loc' = [loc EXCEPT !.iters = @ + 1]
           ELSE /\ ret' = ret
                /\ fn' = fn
                /\ loc' = [loc EXCEPT !.s = @ + 1, !.iters = @ + 1]
    /\ UNCHANGED <<ctx, p, up, aux, done, args>>

\* s<r fails: the loop ends and magic is returned as it stands.
IdivMagicExit ==
    /\ fn = "idiv_magic:for"
    /\ loc.s >= loc.r
    /\ fn' = "idiv_magic"
    /\ UNCHANGED <<ctx, p, up, aux, done, args, ret, loc>>

NextLoop == IdivMagicEnter \/ IdivMagicIterate \/ IdivMagicExit

SpecLoop == InitLoop /\ [][NextLoop]_vars

\* The code is synchronous: a call that has entered the loop keeps running.
SpecLoopFair ==
    SpecLoop /\ WF_vars(IdivMagicIterate) /\ WF_vars(IdivMagicExit)

(***************************************************************************)
(* The generic planner on descriptors whose strides, dilations and pads    *)
(* reach the ends of their lanes in the packed words: strides and          *)
(* dilations up to 63, effective pads up to 127 (a pad of 128 or more sets *)
(* bit 31 of p.pad).                                                       *)
(***************************************************************************)
LaneEnds == {1, 2, 63}
PackPads == {0, 1, 127}
PackKernels == {3, 128}

PackDescriptors ==
    { c \in { MakeCtx(fwd, pw, ph, 1, 1, 8, 16, kw, kh,
                      <<5, 4, 13, 10, su, sv, du, dv>>) :
                fwd \in BOOLEAN, pw \in PackPads, ph \in PackPads,
                kw \in PackKernels, kh \in PackKernels,
                su \in LaneEnds, sv \in LaneEnds,
                du \in LaneEnds, dv \in LaneEnds } :
        c.forward \/ (c.pad_w < c.kernel_size_w /\ c.pad_h < c.kernel_size_h) }

InitPack ==
    /\ ctx \in PackDescriptors
    /\ p \in { PriorConv(f) : f \in PriorFill }
    /\ up = PriorUfconv(0)
    /\ aux = NoAux
    /\ done = {}
    /\ fn = "none"
    /\ args = <<>>
    /\ ret = <<>>
    /\ loc = NoLocals

NextPack == BuildParamsConv

SpecPack == InitPack /\ [][NextPack]_vars

(***************************************************************************)
(* Both planners on one descriptor: the caller hands each builder a record *)
(* with arbitrary prior contents, and the two calls come in either order.  *)
(***************************************************************************)
\* The descriptors handed to both planners: every unit-filter descriptor,
\* and padded, strided descriptors of the generic family with one small and
\* one large channel count each.
BothDescriptors ==
    UfDescriptors \cup
    { c \in { MakeCtx(fwd, pw, ph, ng, bs, inc, n, kw, kh, g) :
                fwd \in BOOLEAN, pw \in 0..MaxPad, ph \in 0..MaxPad,
                ng \in 1..MaxGroups, bs \in 1..MaxBatch, inc \in {8, 16},
                n \in {16, 130}, kw \in KernelSizes, kh \in {3},
                g \in Geometries } :
        c.forward \/ (c.pad_w < c.kernel_size_w /\ c.pad_h < c.kernel_size_h) }

InitBoth ==
    /\ ctx \in BothDescriptors
    /\ \E f \in PriorFill :
          /\ p = PriorConv(f)
          /\ up = PriorUfconv(f)
    /\ aux = NoAux
    /\ done = {}
    /\ fn = "none"
    /\ args = <<>>
    /\ ret = <<>>
    /\ loc = NoLocals

NextBoth == BuildParamsConv \/ BuildParamsUfconv

SpecBoth == InitBoth /\ [][NextBoth]_vars

(***************************************************************************)
(* SpecFn: calls of the static helpers on arguments of the caller's        *)
(* choosing.                                                               *)
(***************************************************************************)
InitFn ==
    /\ ctx = MakeCtx(TRUE, 0, 0, 1, 1, 1, 1, 1, 1, <<1, 1, 1, 1, 1, 1, 1, 1>>)
    /\ p = PriorConv(0)
    /\ up = PriorUfconv(0)
    /\ aux = NoAux
    /\ done = {}
    /\ fn = "none"
    /\ args = <<>>
    /\ ret = <<>>
    /\ loc = NoLocals

\* Arguments of bim_fls above MaxFls: around bit 16, where the last flooding
\* step starts to matter, and up to the largest word below bit 31.
FlsProbes ==
    {65535, 65536, 65537, 98304, 1048576, 16777217, 1073741824, 2147483647}

\* Each behaviour of SpecFn is one call: the helpers keep no state, so a
\* second call would only revisit the states of a first one.
CallBimFls ==
    /\ fn = "none"
    /\ \E n \in (0..MaxFls) \cup FlsProbes :
          /\ fn' = "bim_fls"
          /\ args' = <<n>>
          /\ ret' = <<bim_fls(n)>>
          /\ UNCHANGED <<ctx, p, up, aux, done, loc>>

CallIdivMagic ==
    /\ fn = "none"
    /\ \E nmax \in 0..MaxNmax, d \in 1..MaxD :
          /\ fn' = "idiv_magic"
          /\ args' = <<nmax, d>>
          /\ ret' = <<idiv_magic(nmax, d).m, idiv_magic(nmax, d).s>>
          /\ UNCHANGED <<ctx, p, up, aux, done, loc>>

CallChooseRoutineUfconv ==
    /\ fn = "none"
    /\ \E m \in 1..MaxM, n \in 1..MaxN, k \in 1..MaxK, dir \in 0..1 :
          /\ fn' = "choose_routine_ufconv"
          /\ args' = <<m, n, k, dir>>
          /\ ret' = <<choose_routine_ufconv(m, n, k, dir)>>
          /\ UNCHANGED <<ctx, p, up, aux, done, loc>>

CallChooseRoutineFconv ==
    /\ fn = "none"
    /\ \E n \in 1..MaxN, k \in 1..MaxK :
          /\ fn' = "choose_routine_fconv"
          /\ args' = <<n, k>>
          /\ ret' = <<choose_routine_fconv(n, k)>>
          /\ UNCHANGED <<ctx, p, up, aux, done, loc>>

CallChooseRoutineBconv ==
    /\ fn = "none"
    /\ \E n \in 1..MaxN :
          /\ fn' = "choose_routine_bconv"
          /\ args' = <<n>>
          /\ ret' = <<choose_routine_bconv(n)>>
          /\ UNCHANGED <<ctx, p, up, aux, done, loc>>

CallGetAlignment ==
    /\ fn = "none"
    /\ \E id \in 0..MaxId, dir \in 0..MaxDir :
          /\ fn' = "get_alignment"
          /\ args' = <<id, dir>>
          /\ ret' = <<get_alignment(id, dir)>>
          /\ UNCHANGED <<ctx, p, up, aux, done, loc>>

NextFn ==
    \/ CallBimFls
    \/ CallIdivMagic
    \/ CallChooseRoutineUfconv
    \/ CallChooseRoutineFconv
    \/ CallChooseRoutineBconv
    \/ CallGetAlignment

SpecFn == InitFn /\ [][NextFn]_vars

(***************************************************************************)
(* Properties.                                                             *)
(***************************************************************************)
ConvBuilt == "build_params_conv" \in done
UfBuilt == "build_params_ufconv" \in done

\* C1: whenever idiv_magic(nmax, d) returns a pair (m, s) other than the
\* sentinel, floor(n / d) = (n * m) >> s for every n in 0 .. nmax, and for
\* d = 1 the pair is exactly (1, 0).
C1_MagicIsExactDivision ==
    fn = "idiv_magic" =>
        LET nmax == args[1]
            d == args[2]
            m == ret[1]
            sh == ret[2]
        IN  /\ d = 1 => m = 1 /\ sh = 0
            /\ <<m, sh>> # <<-1, -1>> =>
                  \A n \in 0..nmax : n \div d = (n * m) \div 2^sh

\* C1 witness: a synthesized (not sentinel) pair for a divisor 3 <= d <= nmax
\* that is not a power of two.
C1_Witness ==
    /\ fn = "idiv_magic"
    /\ args = <<40, 7>>
    /\ ret # <<-1, -1>>
    /\ ret[2] > 0

\* C2: after build_params_ufconv, amag is not the sentinel and divides every
\* q in 0 .. ntidx >> sx by m >> sx exactly; when sx # sy the same holds for
\* cmag with sy.
C2_UfconvMagicsDivide ==
    UfBuilt =>
        LET sx == uf_sx(up.id)
            sy == uf_sy(up.id)
        IN  /\ up.amag # Sentinel
            /\ \A q \in 0..Shr(up.ntidx, sx) :
                  q \div Shr(up.m, sx) = (q * up.amag.m) \div 2^(up.amag.s)
            /\ sx # sy =>
                  /\ up.cmag # Sentinel
                  /\ \A q \in 0..Shr(up.ntidx, sy) :
                        q \div Shr(up.m, sy) = (q * up.cmag.m) \div 2^(up.cmag.s)

\* C2 witness: a built unit-filter plan with sx = 2, sy = 1 and a divisor
\* m >> sx that is not a power of two.
C2_Witness ==
    /\ UfBuilt
    /\ uf_sx(up.id) = 2
    /\ uf_sy(up.id) = 1
    /\ up.m = 12
    /\ up.amag.s > 0

\* C3: the size get_auxbuf_size(ctx) returns equals get_auxbuf_size(p), the
\* sum p.spad + p.sperm + p.sidx of the plan build_params_conv makes for the
\* same descriptor.
C3_AuxSizesAgree ==
    /\ ConvBuilt /\ "get_auxbuf_size(ctx)" \in done =>
          aux.ctx = p.spad + p.sperm + p.sidx
    /\ "get_auxbuf_size(p)" \in done =>
          aux.plan = p.spad + p.sperm + p.sidx
    /\ {"get_auxbuf_size(ctx)", "get_auxbuf_size(p)"} \subseteq done =>
          aux.ctx = aux.plan

\* C3 witness: both queries answered for a backward descriptor whose plan
\* has all three buffers and a rounded row pitch.
C3_Witness ==
    /\ {"get_auxbuf_size(ctx)", "get_auxbuf_size(p)"} \subseteq done
    /\ ~ctx.forward
    /\ p.spad > 0
    /\ p.sperm > 0
    /\ p.lda > 1024
    /\ aux.ctx = aux.plan

\* C4 as stated: choose_routine_fconv(n, k) returns 0 whenever k is not
\* divisible by 8, whatever n is.
C4_Original ==
    fn = "choose_routine_fconv" /\ args[2] % 8 # 0 => ret[1] = 0

\* C4 as amended: when k is not divisible by 8, choose_routine_fconv(n, k)
\* returns 1 if ceil(n/16) is odd and n <= 112, and 0 otherwise.
C4_Amended ==
    fn = "choose_routine_fconv" /\ args[2] % 8 # 0 =>
        LET n == args[1]
            s == (n + 15) \div 16
        IN  ret[1] = IF s % 2 = 1 /\ n <= 112 THEN 1 ELSE 0

\* C4 witness: k not divisible by 8, ceil(n/16) odd, n <= 112, the id is 1.
C4_Witness ==
    /\ fn = "choose_routine_fconv"
    /\ args = <<48, 9>>
    /\ ret = <<1>>

\* C5: get_alignment returns only 127 or 255, and 127 exactly when the
\* direction is forward and the id is 1 or 4, or the direction is backward
\* and the id is 0 or 3.
C5_Alignment ==
    fn = "get_alignment" =>
        LET id == args[1]
            dir == args[2]
        IN  /\ ret[1] \in {127, 255}
            /\ ret[1] = 127 <=>
                  \/ dir = 0 /\ id \in {1, 4}
                  \/ dir # 0 /\ id \in {0, 3}

\* C5 witness: a backward call with id 3 returns 127.
C5_Witness ==
    /\ fn = "get_alignment"
    /\ args = <<3, 1>>
    /\ ret = <<127>>

\* C6: choose_routine_fconv returns an id in 0..4, choose_routine_bconv an id
\* in 0..3, and choose_routine_ufconv a word whose low 16 bits are an id in
\* 0..3.
C6_IdRanges ==
    /\ fn = "choose_routine_fconv" => ret[1] \in 0..4
    /\ fn = "choose_routine_bconv" => ret[1] \in 0..3
    /\ fn = "choose_routine_ufconv" => ret[1] % 65536 \in 0..3

\* C6 witness: a unit-filter call with a non-zero mode above bit 16 and the
\* top id 3.
C6_Witness ==
    /\ fn = "choose_routine_ufconv"
    /\ ret[1] \div 65536 = 2
    /\ ret[1] % 65536 = 3

\* C7: with s = ceil(n/16), choose_routine_bconv(n) returns 3 if 8 divides s,
\* else 2 if 4 divides s, else 1 if 2 divides s, else 0.
C7_BconvLadder ==
    fn = "choose_routine_bconv" =>
        LET n == args[1]
            s == (n + 15) \div 16
        IN  ret[1] = IF s % 8 = 0 THEN 3
                     ELSE IF s % 4 = 0 THEN 2
                     ELSE IF s % 2 = 0 THEN 1
                     ELSE 0

\* C7 witness: n = 20 gives s = 2 and id 1.
C7_Witness ==
    /\ fn = "choose_routine_bconv"
    /\ args = <<20>>
    /\ ret = <<1>>

\* C8 as stated: whenever pad_w = pad_h = 0, in either direction and for any
\* kernel size, the plan's spad is 0.
C8_Original ==
    ConvBuilt /\ ctx.pad_w = 0 /\ ctx.pad_h = 0 => p.spad = 0

\* C8 as amended: whenever pad_w = pad_h = 0, the plan's spad is 0 in the
\* forward direction for any kernel size, and in the backward direction when
\* the kernel is 1x1.
C8_Amended ==
    /\ ConvBuilt /\ ctx.pad_w = 0 /\ ctx.pad_h = 0 =>
          (ctx.forward \/ (ctx.kernel_size_w = 1 /\ ctx.kernel_size_h = 1)
              => p.spad = 0)

\* C8 witness: a forward plan with a 3x3 kernel, no padding and spad = 0.
C8_Witness ==
    /\ ConvBuilt
    /\ ctx.forward
    /\ ctx.pad_w = 0 /\ ctx.pad_h = 0
    /\ ctx.kernel_size_w = 3 /\ ctx.kernel_size_h = 3
    /\ p.spad = 0

\* C9: in a plan of build_params_conv, sperm is 0 if and only if the
\* direction is forward; every backward plan has sperm > 0.
C9_PermBuffer ==
    ConvBuilt =>
        /\ p.sperm = 0 <=> ctx.forward
        /\ ~ctx.forward => p.sperm > 0

\* C9 witness: a backward plan with padding and sperm > 0.
C9_Witness ==
    /\ ConvBuilt
    /\ ~ctx.forward
    /\ ctx.pad_w = 1
    /\ p.sperm > 0

\* C10: build_params_conv pads a backward descriptor by kernel - pad - 1 on
\* each axis and a forward descriptor by its own pads: pnx and pny are the
\* input extents plus twice that pad, and spad is 0 if and only if both are 0.
C10_EffectivePad ==
    ConvBuilt =>
        LET eu == IF ctx.forward THEN ctx.pad_w
                  ELSE ctx.kernel_size_w - ctx.pad_w - 1
            ev == IF ctx.forward THEN ctx.pad_h
                  ELSE ctx.kernel_size_h - ctx.pad_h - 1
        IN  /\ p.pnx = ctx.in_width + 2 * eu
            /\ p.pny = ctx.in_height + 2 * ev
            /\ p.spad = 0 <=> (eu = 0 /\ ev = 0)

\* C10 witness: a backward plan with a 3-wide kernel and pad_w = 1 (mirrored
\* pad 1), a 1-high kernel, and a padding buffer.
C10_Witness ==
    /\ ConvBuilt
    /\ ~ctx.forward
    /\ ctx.kernel_size_w = 3 /\ ctx.pad_w = 1
    /\ ctx.kernel_size_h = 1 /\ ctx.pad_h = 0
    /\ p.pnx = ctx.in_width + 2
    /\ p.spad > 0

\* build_params_conv has returned and the caller has made no query yet (the
\* queries that may follow change neither ctx nor p).
ConvReturned == done = {"build_params_conv"}

\* The plan build_params_conv makes for descriptor c.
PlanOf(c) == build_params_conv(PriorConv(0), c)

\* Each of spad, sperm, sidx and their total in plan a is at most the same
\* size in plan b.
SizesLeq(a, b) ==
    /\ a.spad <= b.spad
    /\ a.sperm <= b.sperm
    /\ a.sidx <= b.sidx
    /\ a.spad + a.sperm + a.sidx <= b.spad + b.sperm + b.sidx

\* C11: with every other descriptor field fixed, spad, sperm, sidx and their
\* total do not decrease when the batch size grows.
C11_MonotoneInBatch ==
    ConvReturned =>
        \A b \in 1..MaxBatch :
            b >= ctx.batch_sz =>
                SizesLeq(p, PlanOf([ctx EXCEPT !.batch_sz = b]))

\* C11 witness: a padded plan at batch 1 whose pitch is below 1024 and whose
\* batch-2 sibling has a rounded pitch, a larger spad and a larger sidx.
C11_Witness ==
    /\ ConvBuilt
    /\ ctx.batch_sz = 1
    /\ p.pad # 0
    /\ p.lda <= 1024
    /\ LET q == PlanOf([ctx EXCEPT !.batch_sz = 2])
       IN  /\ q.lda > 1024
           /\ q.spad > p.spad
           /\ q.sidx > p.sidx

\* The descriptors that differ from the current one in a channel count only,
\* and have at least as many channels.
MoreChannels ==
    { [ctx EXCEPT !.n_inputs = i] : i \in { j \in InChannels : j >= ctx.n_inputs } }
    \cup
    { [ctx EXCEPT !.n_outputs = n] : n \in { j \in OutChannels : j >= ctx.n_outputs } }

\* C12 as stated: with every other descriptor field fixed, spad, sperm, sidx
\* and their total do not decrease when the input-channel count or the
\* output-channel count grows.
C12_Original ==
    ConvReturned => \A c \in MoreChannels : SizesLeq(p, PlanOf(c))

\* C12 as amended: the same, provided the larger channel count selects the
\* same routine id.
C12_Amended ==
    ConvReturned =>
        \A c \in MoreChannels :
            LET q == PlanOf(c)
            IN  q.id = p.id => SizesLeq(p, q)

\* C12 witness: a backward plan and a sibling with more input channels and
\* the same routine id whose spad, sperm and sidx are all larger.
C12_Witness ==
    /\ ConvBuilt
    /\ ~ctx.forward
    /\ \E c \in MoreChannels :
          LET q == PlanOf(c)
          IN  /\ c.n_inputs > ctx.n_inputs
              /\ q.id = p.id
              /\ q.spad > p.spad
              /\ q.sperm > p.sperm
              /\ q.sidx > p.sidx

\* C13: for two descriptors that differ only in the group count, g1 < g2,
\* and have padding present, spad(g2) * g1 = spad(g1) * g2.
C13_SpadLinearInGroups ==
    ConvReturned /\ (ctx.pad_w # 0 \/ ctx.pad_h # 0) =>
        \A g2 \in 1..MaxGroups :
            ctx.group_counts < g2 =>
                PlanOf([ctx EXCEPT !.group_counts = g2]).spad * ctx.group_counts
                    = p.spad * g2

\* C13 witness: a padded plan with one group and a padding buffer, whose
\* two-group sibling has twice the spad.
C13_Witness ==
    /\ ConvBuilt
    /\ ctx.group_counts = 1
    /\ ctx.pad_w # 0
    /\ p.spad > 0
    /\ PlanOf([ctx EXCEPT !.group_counts = 2]).spad = 2 * p.spad

\* C14: when t = ceil(n/16) is odd and n <= 112, choose_routine_ufconv
\* returns id 0 in both directions.  Otherwise, with s = ceil(n/32), the
\* forward id is 3 if 4 divides s and 16 divides k, 2 if 4 divides s and 16
\* does not divide k, 2 if s is even and 4 does not divide s, 1 if s is odd;
\* the backward id is that id if 4 divides n, 1 if n is odd, 2 if n is even
\* and 4 does not divide n.
C14_UfconvId ==
    fn = "choose_routine_ufconv" =>
        LET n == args[2]
            k == args[3]
            dir == args[4]
            t == (n + 15) \div 16
            s == (n + 31) \div 32
            fwd == IF s % 4 = 0 THEN (IF k % 16 = 0 THEN 3 ELSE 2)
                   ELSE IF s % 2 = 0 THEN 2
                   ELSE 1
            bwd == IF n % 4 = 0 THEN fwd
                   ELSE IF n % 2 = 1 THEN 1
                   ELSE 2
        IN  ret[1] % 65536 =
                IF t % 2 = 1 /\ n <= 112 THEN 0
                ELSE IF dir = 0 THEN fwd
                ELSE bwd

\* C14 witness: a backward call with n = 126 (t = 8, s = 4, n even and not
\* divisible by 4) and k = 16, where the forward id 3 is replaced by 2.
C14_Witness ==
    /\ fn = "choose_routine_ufconv"
    /\ args[2] = 126 /\ args[3] = 16 /\ args[4] = 1
    /\ ret[1] % 65536 = 2

\* C15: bim_fls(0) = 0, and for n > 0 bim_fls(n) is the one-based position b
\* of the highest set bit of n: 2^(b-1) <= n < 2^b.
C15_BimFls ==
    fn = "bim_fls" =>
        LET n == args[1]
            b == ret[1]
        IN  IF n = 0 THEN b = 0
            ELSE /\ b \in 1..31
                 /\ 2^(b - 1) <= n
                 /\ (b < 31 => n < 2^b)

\* C15 witness: bim_fls(65536) = 17, a word whose bit 0 is reached only by
\* the shift by 16.
C15_Witness ==
    /\ fn = "bim_fls"
    /\ args = <<65536>>
    /\ ret = <<17>>

\* The number of bits of n: 0 for 0, else the b with 2^(b-1) <= n < 2^b.
BitWidth(n) == IF n = 0 THEN 0 ELSE CHOOSE b \in 1..31 : 2^(b - 1) <= n /\ n < 2^b

\* C16: for d >= 2, idiv_magic returns the pair of the smallest shift s in
\* 0 .. 2*bitwidth(nmax) with 2^s > nc * mod, where mod = (d-1) -
\* ((2^s - 1) mod d) and nc = ((nmax+1)/d)*d - 1 in 32 bits (0xFFFFFFFF when
\* d > nmax + 1, so that only mod = 0 passes); if no shift of the range
\* passes, both fields are -1.
C16_SmallestShiftOrSentinel ==
    fn = "idiv_magic" /\ args[2] >= 2 =>
        LET nmax == args[1]
            d == args[2]
            t == ((nmax + 1) \div d) * d
            Mod(s) == (d - 1) - ((2^s - 1) % d)
            Passes(s) == IF t = 0 THEN Mod(s) = 0 ELSE 2^s > (t - 1) * Mod(s)
            cand == { s \in 0..(2 * BitWidth(nmax)) : Passes(s) }
        IN  IF cand = {}
            THEN ret = <<-1, -1>>
            ELSE \E s \in cand :
                    /\ \A u \in cand : s <= u
                    /\ ret = <<(2^s + Mod(s)) \div d, s>>

\* C16 witness for the search: a pair found at the last shift of the range,
\* s = 2*bitwidth(nmax).
C16_Witness ==
    /\ fn = "idiv_magic"
    /\ args[2] >= 2
    /\ ret[2] = 2 * BitWidth(args[1])
    /\ ret[2] > 0

\* C16 reaches the sentinel too: a call with 2 <= d <= MaxD that returns
\* (-1, -1).
C16_SentinelReached ==
    /\ fn = "idiv_magic"
    /\ args[2] >= 2
    /\ ret = <<-1, -1>>

\* C17: build_params_ufconv computes cmag only when the two shifts differ:
\* with sx == sy the call leaves cmag exactly as it was, and with sx # sy
\* cmag = idiv_magic(ntidx >> sy, m >> sy).
C17_CmagOnlyWhenShiftsDiffer ==
    [][ (~UfBuilt /\ UfBuilt') =>
            LET sx == uf_sx(up'.id)
                sy == uf_sy(up'.id)
            IN  IF sx = sy
                THEN up'.cmag = up.cmag
                ELSE up'.cmag = idiv_magic(Shr(up'.ntidx, sy), Shr(up'.m, sy)) ]_vars

\* C17 witness: a built plan with sx == sy whose cmag still holds the
\* filler the record was handed over with, next to a computed amag.
C17_Witness ==
    /\ UfBuilt
    /\ uf_sx(up.id) = uf_sy(up.id)
    /\ up.cmag = [m |-> 7, s |-> 7]
    /\ up.amag # [m |-> 7, s |-> 7]

\* C18 as stated: each builder is a pure function of the descriptor; the
\* plan built on a record with any other prior contents is equal in every
\* field.
C18_Original ==
    /\ ConvBuilt => \A f \in PriorFill : build_params_conv(PriorConv(f), ctx) = p
    /\ UfBuilt => \A f \in PriorFill : build_params_ufconv(PriorUfconv(f), ctx) = up

\* C18, amended: build_params_conv is a pure function of the descriptor, and
\* so is build_params_ufconv in every field but cmag; cmag is a function of
\* the descriptor only when sx # sy, and with sx == sy it is whatever the
\* record held before the call.
C18_Amended ==
    /\ ConvBuilt => \A f \in PriorFill : build_params_conv(PriorConv(f), ctx) = p
    /\ UfBuilt =>
          \A f \in PriorFill :
              LET o == build_params_ufconv(PriorUfconv(f), ctx)
              IN  /\ [o EXCEPT !.cmag = up.cmag] = up
                  /\ IF uf_sx(up.id) # uf_sy(up.id)
                     THEN o.cmag = up.cmag
                     ELSE o.cmag = PriorUfconv(f).cmag

\* C18 witness: both builders have run on one descriptor, the unit-filter
\* plan has sx == sy and its cmag is the filler 7, which a record filled
\* with 0 would not give.
C18_Witness ==
    /\ ConvBuilt
    /\ UfBuilt
    /\ uf_sx(up.id) = uf_sy(up.id)
    /\ up.cmag = PriorUfconv(7).cmag
    /\ build_params_ufconv(PriorUfconv(0), ctx).cmag # up.cmag

\* C19 as stated: after build_params_ufconv, ntidx = (dimx + mask) & ~mask
\* with mask = get_alignment(routine id, dir) and dimx = m * batch size.
C19_Original ==
    UfBuilt =>
        LET mask == get_alignment(BitAnd(up.id, 65535), up.dir)
        IN  /\ up.dimx = up.m * ctx.batch_sz
            /\ up.ntidx = AndNot(up.dimx + mask, mask)

\* C19, amended: after build_params_ufconv, ntidx = (dimx + mask) & ~mask
\* with dimx = m * batch size and mask = 255 for routine ids 1 and 2, 127
\* for ids 0 and 3, in both directions; that is get_alignment(id, 1), so it
\* is the resolver's mask for dir when the plan is backward.
C19_Amended ==
    UfBuilt =>
        LET id == up.id % 65536
            mask == IF id \in {1, 2} THEN 255 ELSE 127
        IN  /\ up.dimx = up.m * ctx.batch_sz
            /\ up.ntidx = ((up.dimx + mask) \div (mask + 1)) * (mask + 1)
            /\ mask = get_alignment(id, 1)
            /\ up.dir = 1 => mask = get_alignment(id, up.dir)

\* C19 witness: a forward plan with routine id 1, rounded to 256 where the
\* resolver's forward mask is 127.
C19_Witness ==
    /\ UfBuilt
    /\ up.dir = 0
    /\ up.id % 65536 = 1
    /\ up.ntidx = 256
    /\ get_alignment(1, 0) = 127

\* C20 as stated: over all m >= 1 the mode in bits 16 and above of
\* choose_routine_ufconv's result takes at most two distinct values.
C20_Original ==
    fn = "choose_routine_ufconv" =>
        Cardinality({ choose_routine_ufconv(m, args[2], args[3], args[4]) \div 65536 :
                        m \in 1..MaxM }) <= 2

\* C20, amended: the mode is a three-state classifier of m's residue mod 4:
\* 0 for odd m, 1 for m = 2 mod 4, 2 for m = 0 mod 4.
C20_Amended ==
    fn = "choose_routine_ufconv" =>
        ret[1] \div 65536 = (IF args[1] % 2 = 1 THEN 0
                             ELSE IF args[1] % 4 = 2 THEN 1 ELSE 2)

\* C20 witness: a call with m a multiple of 4 returns the third mode, 2.
C20_Witness ==
    /\ fn = "choose_routine_ufconv"
    /\ args[1] = 4
    /\ ret[1] \div 65536 = 2

\* C21: for choose_routine_fconv(n, k) with k divisible by 8, r = ceil(n/32)
\* and s = ceil(n/16): the result is 1 when s is odd and n <= 112; otherwise
\* it is 4 when r is divisible by 4 and k by 16, 3 when r is divisible by 4
\* and k is not divisible by 16, 3 when r is even but not divisible by 4, and
\* 2 when r is odd.
C21_FconvLadder ==
    fn = "choose_routine_fconv" /\ args[2] % 8 = 0 =>
        LET n == args[1]
            k == args[2]
            r == (n + 31) \div 32
            s == (n + 15) \div 16
        IN  ret[1] = (IF s % 2 = 1 /\ n <= 112 THEN 1
                      ELSE IF r % 4 = 0 THEN (IF k % 16 = 0 THEN 4 ELSE 3)
                      ELSE IF r % 2 = 0 THEN 3
                      ELSE 2)

\* C21 witness: r = 2 (even, not divisible by 4), s = 4 and k = 8 select
\* routine 3.
C21_Witness ==
    /\ fn = "choose_routine_fconv"
    /\ args = <<64, 8>>
    /\ ret = <<3>>

\* C22: in every plan from build_params_conv, ntidx is the smallest multiple
\* of mask + 1 that is >= m = out_width * out_height * batch size, where
\* mask = get_alignment(p.id, p.dir): ntidx >= m, ntidx - m <= mask and
\* ntidx mod (mask + 1) = 0.
C22_TileCountRounded ==
    ConvBuilt =>
        LET mask == get_alignment(p.id, p.dir)
            m == ctx.out_width * ctx.out_height * ctx.batch_sz
        IN  /\ p.m = m
            /\ mask \in {127, 255}
            /\ p.ntidx >= m
            /\ p.ntidx - m <= mask
            /\ p.ntidx % (mask + 1) = 0
            /\ \A j \in 0..(p.ntidx \div (mask + 1)) :
                  j * (mask + 1) >= m => j * (mask + 1) >= p.ntidx

\* C22 witness: m = 256 is already a multiple of 256 and stays; the plan is
\* built for a routine with mask 255.
C22_Witness ==
    /\ ConvBuilt
    /\ p.m = 256
    /\ get_alignment(p.id, p.dir) = 255
    /\ p.ntidx = 256

\* C23: in every plan from build_params_conv, sidx = ntidx * 8 + pk * 4 +
\* 128, where pk is the smallest multiple of g >= k = kernel_w * kernel_h *
\* input channels and g is 16 exactly when the routine id is 4 (forward) or
\* 3 (backward), else 8; backward, sperm = groups * 4 * pk * (output
\* channels rounded up to a multiple of 4).
C23_IndexAndPermSizes ==
    ConvBuilt =>
        LET k == ctx.kernel_size_w * ctx.kernel_size_h * ctx.n_inputs
            wide == (ctx.forward /\ p.id = 4) \/ (~ctx.forward /\ p.id = 3)
            g == IF wide THEN 16 ELSE 8
            pk == ((k + g - 1) \div g) * g
            n4 == ((ctx.n_outputs + 3) \div 4) * 4
        IN  /\ p.k = k
            /\ p.sidx = p.ntidx * 8 + pk * 4 + 128
            /\ ~ctx.forward => p.sperm = ctx.group_counts * 4 * pk * n4

\* C23 witness: a backward plan of routine 3 (128 output channels) whose
\* k = 8 is rounded to pk = 16 in both sidx and sperm.
C23_Witness ==
    /\ ConvBuilt
    /\ ~ctx.forward
    /\ p.id = 3
    /\ p.k = 8
    /\ p.sidx = p.ntidx * 8 + 64 + 128
    /\ p.sperm = ctx.group_counts * 4 * 16 * 128

\* The effective pads of a descriptor: its own pads forward, kernel - pad - 1
\* backward.
EffPadW == IF ctx.forward THEN ctx.pad_w ELSE ctx.kernel_size_w - ctx.pad_w - 1
EffPadH == IF ctx.forward THEN ctx.pad_h ELSE ctx.kernel_size_h - ctx.pad_h - 1

\* C24: lda = pnx * pny without effective padding; lda = pnx * pny * batch
\* size with padding when that product is <= 1024; and with padding and a
\* product x > 1024, lda is a multiple of 64 with x <= lda < x + 128.
C24_RowPitch ==
    ConvBuilt =>
        LET pnx == ctx.in_width + 2 * EffPadW
            pny == ctx.in_height + 2 * EffPadH
            x == pnx * pny * ctx.batch_sz
        IN  IF EffPadW = 0 /\ EffPadH = 0
            THEN p.lda = pnx * pny
            ELSE IF x <= 1024
                 THEN p.lda = x
                 ELSE /\ p.lda % 64 = 0
                      /\ x <= p.lda
                      /\ p.lda < x + 128

\* C24 witness: a padded plan with x = 35 * 33 * 2 = 2310 > 1024, whose
\* pitch is 64 * 37 = 2368.
C24_Witness ==
    /\ ConvBuilt
    /\ p.pad # 0
    /\ p.pnx * p.pny * p.bs = 2310
    /\ p.lda = 2368

\* C25 as stated: with padding and pnx * pny * batch size > 1024, the
\* quotient lda / 64 is even.
C25_Original ==
    ConvBuilt /\ p.pad # 0 /\ p.pnx * p.pny * p.bs > 1024 =>
        /\ p.lda % 64 = 0
        /\ (p.lda \div 64) % 2 = 0

\* C25, amended: with padding and x = pnx * pny * batch size > 1024, the
\* quotient lda / 64 is odd: it is ceil(x / 64) when that is odd and
\* ceil(x / 64) + 1 when it is even.
C25_Amended ==
    ConvBuilt /\ p.pad # 0 /\ p.pnx * p.pny * p.bs > 1024 =>
        LET c == (p.pnx * p.pny * p.bs + 63) \div 64
        IN  /\ p.lda % 64 = 0
            /\ (p.lda \div 64) % 2 = 1
            /\ p.lda \div 64 = (IF c % 2 = 1 THEN c ELSE c + 1)

\* C25 witness: x = 35 * 31 * 2 = 2170 has ceil(x / 64) = 34, even, and
\* the pitch is nudged to 64 * 35.
C25_Witness ==
    /\ ConvBuilt
    /\ p.pad # 0
    /\ p.pnx * p.pny * p.bs = 2170
    /\ p.lda = 64 * 35

\* C26: the packed words of build_params_conv round-trip.  For strides and
\* dilations below 64 the 6-bit lanes of p.sd at bits 0, 6, 12 and 18 decode
\* to stride_w, stride_h, dilation_w and dilation_h; for effective pads
\* below 256 byte lanes 0 and 1 of p.pad hold the width pad and byte lanes 2
\* and 3 the height pad; and p.pad = 0 if and only if both effective pads
\* are 0.
C26_PackedWordsRoundTrip ==
    ConvBuilt =>
        /\ p.sd % 64 = ctx.kernel_stride_w
        /\ (p.sd \div 64) % 64 = ctx.kernel_stride_h
        /\ (p.sd \div 4096) % 64 = ctx.kernel_dilation_w
        /\ (p.sd \div 262144) % 64 = ctx.kernel_dilation_h
        /\ p.sd < 16777216
        /\ p.pad % 256 = EffPadW
        /\ (p.pad \div 256) % 256 = EffPadW
        /\ (p.pad \div 65536) % 256 = EffPadH
        /\ p.pad \div 16777216 = EffPadH
        /\ p.pad = 0 <=> (EffPadW = 0 /\ EffPadH = 0)

\* C26 witness: a backward plan with stride_w 63 next to stride_h 1,
\* dilations 2 and 63, and mirrored pads 127 (kernel 128, pad 0) and 1
\* (kernel 3, pad 1).
C26_Witness ==
    /\ ConvBuilt
    /\ ~ctx.forward
    /\ ctx.kernel_stride_w = 63 /\ ctx.kernel_stride_h = 1
    /\ ctx.kernel_dilation_w = 2 /\ ctx.kernel_dilation_h = 63
    /\ ctx.kernel_size_w = 128 /\ ctx.pad_w = 0
    /\ ctx.kernel_size_h = 3 /\ ctx.pad_h = 1
    /\ p.pad = 16777216 + 65536 + 127 * 256 + 127
    /\ p.sd = 63 * 262144 + 2 * 4096 + 64 + 63

\* The step-by-step run of idiv_magic returns what the operator idiv_magic
\* computes.
IdivStepsAgree ==
    fn = "idiv_magic" =>
        ret = <<idiv_magic(args[1], args[2]).m, idiv_magic(args[1], args[2]).s>>

\* The loop body of a call of idiv_magic has run at most 2 * bitwidth(nmax)
\* + 1 times, and not at all when d = 1.
C27_IterationsBounded ==
    fn \in {"idiv_magic:for", "idiv_magic"} =>
        /\ loc.iters <= 2 * BitWidth(args[1]) + 1
        /\ args[2] = 1 => loc.iters = 0

\* C27: idiv_magic always terminates, and its search loop executes at most
\* 2 * bitwidth(nmax) + 1 iterations for every divisor d >= 1 and bound
\* nmax, none when d = 1.
C27_TerminatesWithinBound ==
    /\ []C27_IterationsBounded
    /\ (fn = "idiv_magic:for") ~> (fn = "idiv_magic")

\* C27 witness: a call that returned after the full 2 * bitwidth(nmax) + 1
\* iterations, without a pair.
C27_Witness ==
    /\ fn = "idiv_magic"
    /\ args[2] > 1
    /\ loc.iters = 2 * BitWidth(args[1]) + 1
    /\ loc.iters > 1
    /\ ret = <<-1, -1>>

\* C28: idiv_magic never returns the failure sentinel when 1 <= d <=
\* nmax + 1: some shift s <= 2 * bitwidth(nmax) passes the validity test;
\* the sentinel arises only for d > nmax + 1, where nc wraps around.
C28_NoSentinelInRange ==
    fn = "idiv_magic" =>
        LET nmax == args[1]
            d == args[2]
        IN  /\ (d >= 1 /\ d <= nmax + 1) =>
                  /\ ret # <<-1, -1>>
                  /\ ret[2] \in 0..(2 * BitWidth(nmax))
                  /\ idiv_nc(nmax, d) >= 0
            /\ ret = <<-1, -1>> =>
                  /\ d > nmax + 1
                  /\ idiv_nc(nmax, d) = -1

\* C28 witness: d = nmax + 1, the largest divisor of the range, not a power
\* of two, with a pair found at a shift above bitwidth(nmax).
C28_Witness ==
    /\ fn = "idiv_magic"
    /\ args = <<40, 41>>
    /\ ret # <<-1, -1>>
    /\ ret[2] > BitWidth(40)

\* The mode of a row count m: 0 for odd m, 1 for m = 2 mod 4, 2 for m
\* divisible by 4.
ModeOf(m) == IF m % 2 = 1 THEN 0 ELSE IF m % 4 = 2 THEN 1 ELSE 2

\* C29: in build_params_ufconv, for every m >= 1 and every routine id the
\* selector returns, the table index id * 3 + mode is at most 11, sx equals
\* the mode, sy is 1 exactly when the id is 3 and the mode is not 0 and is 0
\* otherwise, and m is divisible by 2^sx and by 2^sy, so that m >> sx and
\* m >> sy are exact quotients and not 0.
C29_ShiftTables ==
    /\ UfBuilt =>
          LET id == up.id % 65536
              mode == up.id \div 65536
              sx == uf_sx(up.id)
              sy == uf_sy(up.id)
          IN  /\ up.m = ctx.in_width * ctx.in_height
              /\ id \in 0..3
              /\ mode = ModeOf(up.m)
              /\ uf_index(up.id) = id * 3 + mode
              /\ uf_index(up.id) <= 11
              /\ sx = mode
              /\ sy = (IF id = 3 /\ mode # 0 THEN 1 ELSE 0)
              /\ up.m % 2^sx = 0
              /\ up.m % 2^sy = 0
              /\ Shr(up.m, sx) * 2^sx = up.m
              /\ Shr(up.m, sy) * 2^sy = up.m
              /\ Shr(up.m, sx) >= 1
              /\ Shr(up.m, sy) >= 1
    /\ UfBuilt =>
          \A id \in 0..3, mode \in 0..2 :
              /\ uf_sx(mode * 65536 + id) = mode
              /\ uf_sy(mode * 65536 + id) = (IF id = 3 /\ mode # 0 THEN 1 ELSE 0)

\* C29 witness: routine 3 with m = 6 (mode 1): index 10, sx = sy = 1 and
\* the divisor 3.
C29_Witness ==
    /\ UfBuilt
    /\ up.id = 65536 + 3
    /\ up.m = 6
    /\ uf_index(up.id) = 10
    /\ uf_sx(up.id) = 1
    /\ uf_sy(up.id) = 1
    /\ Shr(up.m, 1) = 3

====
